---- MODULE Spec2Model ----
(***************************************************************************)
(* Model of Notebooks/Downloading_Data_TATOR_API.ipynb: the notebook that  *)
(* lists a TATOR project's media, collects the localizations of the media  *)
(* of interest, downloads the frames that carry localizations on a thread  *)
(* pool and writes one Pascal-VOC XML file per frame.                      *)
(*                                                                         *)
(* Strings the code takes apart (media names, paths) are sequences of      *)
(* one-character strings; directory names are single tokens.  Normalized   *)
(* box coordinates are the fractions k / Denom; with Denom = 4 these are    *)
(* values that Python floats hold and multiply by an integer exactly.      *)
(***************************************************************************)
EXTENDS Integers, Sequences, FiniteSets, TLC

\* ------------------------------------------------------------------ bounds
MaxLocs == 2
MaxFrame == 1
MaxNum == 5
Denom == 4

\* ------------------------------------------------------- program constants
max_workers == 12

ROOT == <<".", "/", "Data", "/">>
IMAGE_DIR == ROOT \o <<"JPEGImages", "/">>
LABEL_DIR == ROOT \o <<"Annotations", "/">>

JpgExt == <<".", "j", "p", "g">>
XmlExt == <<".", "x", "m", "l">>

ScientificName == "ScientificName"
ScientifcName == "ScientifcName"
Unknown == "Unknown"

\* --------------------------------------------------------- string helpers
\* str.replace(old, new) for one-character old and new
ReplaceChar(s, old, new) ==
  [i \in 1..Len(s) |-> IF s[i] = old THEN new ELSE s[i]]

\* str.split(sep)[0] for a one-character sep: the part before the first sep
SplitFirst(s, sep) ==
  IF \E i \in 1..Len(s) : s[i] = sep
  THEN SubSeq(s, 1, (CHOOSE i \in 1..Len(s) :
                       /\ s[i] = sep
                       /\ \A j \in 1..(i - 1) : s[j] # sep) - 1)
  ELSE s

Digit(d) == <<"0", "1", "2", "3", "4", "5", "6", "7", "8", "9">>[d + 1]

\* str(n) for a natural number n
RECURSIVE Str(_)
Str(n) == IF n < 10 THEN <<Digit(n)>> ELSE Str(n \div 10) \o <<Digit(n % 10)>>

\* os.path.basename: the part after the last "/"
Basename(p) ==
  IF \E i \in 1..Len(p) : p[i] = "/"
  THEN SubSeq(p, (CHOOSE i \in 1..Len(p) :
                    /\ p[i] = "/"
                    /\ \A j \in (i + 1)..Len(p) : p[j] # "/") + 1, Len(p))
  ELSE p

StartsWith(s, pat) == Len(pat) <= Len(s) /\ SubSeq(s, 1, Len(pat)) = pat

\* str.replace(pat, rep): every occurrence, left to right, without overlap
RECURSIVE ReplaceSub(_, _, _)
ReplaceSub(s, pat, rep) ==
  IF s = <<>> THEN <<>>
  ELSE IF StartsWith(s, pat)
       THEN rep \o ReplaceSub(SubSeq(s, Len(pat) + 1, Len(s)), pat, rep)
       ELSE <<Head(s)>> \o ReplaceSub(Tail(s), pat, rep)

\* int(num / den): truncation toward zero
Trunc(num, den) == IF num >= 0 THEN num \div den ELSE -((-num) \div den)

\* -------------------------------------------------------------- the inputs
\* frame numbers of one digit and of two
Frames == {10 * k : k \in 0..MaxFrame}
Nums == 0..MaxNum
Classes == {"Fish"}
AttrKeys == {ScientificName, ScientifcName}

NameAM == <<"a", ".", "m">>
NameAN == <<"a", ".", "n">>
NameBC == <<"b", ":", "c">>
MediaNames == {NameAM, NameAN, NameBC}

\* the order in which the project lists its media
NameOrder == <<NameAM, NameAN, NameBC>>

Box0 == [x |-> 1, y |-> 2, width |-> 2, height |-> 1]
Size0 == [width |-> 8, height |-> 4]


\* A localization as the API describes it before it has an id: the tool that
\* made it (kind), its frame, the attribute keys it carries and its box.
Kinds == {"track", "standalone"}
Boxes == [x : Nums, y : Nums, width : Nums, height : Nums]
Sizes == {[width |-> 2, height |-> 3], [width |-> 8, height |-> 5]}
FullShapes == [kind : Kinds, frame : Frames, keys : SUBSET AttrKeys, box : {Box0}]
PlainShapes == [kind : {"standalone"}, frame : Frames, keys : {{ScientificName}},
                box : {Box0}]
BoxShapes == [kind : {"standalone"}, frame : {0}, keys : {{ScientificName}},
              box : Boxes]

SeqsUpTo(S, n) == UNION {[1..k -> S] : k \in 0..n}
ByFrame(sh) == \A i \in 1..(Len(sh) - 1) : sh[i].frame <= sh[i + 1].frame

MediaIdOf(name) == CHOOSE i \in 1..Len(NameOrder) : NameOrder[i] = name

MkLoc(mid, pos, shape) ==
  [id |-> mid * 10 + pos, media |-> mid, frame |-> shape.frame,
   x |-> shape.box.x, y |-> shape.box.y,
   width |-> shape.box.width, height |-> shape.box.height,
   attributes |-> [k \in shape.keys |-> CHOOSE c \in Classes : TRUE]]

LocsOfKind(mid, sh, kind) ==
  LET idx == SelectSeq([i \in 1..Len(sh) |-> i], LAMBDA i : sh[i].kind = kind)
  IN [j \in 1..Len(idx) |-> MkLoc(mid, idx[j], sh[idx[j]])]

\* The project on the server: the media whose names are in P, in the project's
\* order, all of one size, and for each of them its tracks and localizations.
ServerOf(P, size, shapes) ==
  LET names == SelectSeq(NameOrder, LAMBDA n : n \in P)
      ids == {MediaIdOf(n) : n \in P}
  IN [medias |-> [i \in 1..Len(names) |->
                    [id |-> MediaIdOf(names[i]), name |-> names[i],
                     width |-> size.width, height |-> size.height]],
      tracks |-> [m \in ids |->
                    LET tl == LocsOfKind(m, shapes[NameOrder[m]], "track")
                    IN IF tl = <<>> THEN <<>>
                       ELSE <<[id |-> m, localizations |-> tl]>>],
      localizations |-> [m \in ids |->
                    LocsOfKind(m, shapes[NameOrder[m]], "standalone")]]

\* ------------------------------------------------------------------- state
VARIABLES
  server,                  \* the TATOR project behind api
  MEDIA_LIST,              \* the media of interest (cell "Media of Interest")
  DOWNLOAD,                \* the download flag (cell "Download?")
  pc,                      \* the cell or statement the kernel is at
  error,                   \* the exception that stopped the run, or "none"
  medias,                  \* api.get_media_list(PROJECT_ID)
  report,                  \* the found / not found lines printed so far
  ci,                      \* position of the collection loop in medias
  tracks,                  \* the tracks of the media collected last
  localizations,           \* the localizations of the media handled last
  media_w_localizations,   \* one entry per media of interest
  index,                   \* position of the download loop
  frames_w_localizations,  \* frames of the current media that carry a localization
  tasks,                   \* frame -> state of its download_image task
  img_paths,               \* frame -> path returned by its task
  images,                  \* files of IMAGE_DIR: path -> the frame stored there
  xmls,                    \* files of LABEL_DIR: path -> annotation written there
  fetches,                 \* api.get_frame calls of this run: <<media_id, frame>> -> count
  saved,                   \* writer.save calls of this run: path -> annotation
  run,                     \* 1 for the first execution of the notebook, 2 for the second
  start_images,            \* images as they were when this execution started
  prev                     \* what the first execution left, once it was re-run

vars == <<server, MEDIA_LIST, DOWNLOAD, pc, error, medias, report, ci, tracks,
          localizations, media_w_localizations, index, frames_w_localizations,
          tasks, img_paths, images, xmls, fetches, saved, run, start_images, prev>>


EmptyFn == [k \in {} |-> k]
Put(f, k, v) == [x \in DOMAIN f \cup {k} |-> IF x = k THEN v ELSE f[x]]
Range(q) == {q[i] : i \in DOMAIN q}

\* the ascending list of a set of integers (list(set(...)) of small frame numbers)
RECURSIVE SortedSeq(_)
SortedSeq(S) ==
  IF S = {} THEN <<>>
  ELSE LET m == CHOOSE x \in S : \A y \in S : x <= y
       IN <<m>> \o SortedSeq(S \ {m})

\* ------------------------------------------------ the notebook's functions
\* download_image with the frame number left out of the file name
DstNoFrame(frame, media_name, media_dir) ==
  media_dir \o SplitFirst(media_name, ".") \o JpgExt

\* download_image, line 90: where the frame is stored
Dst(frame, media_name, media_dir) ==
  media_dir \o SplitFirst(media_name, ".") \o <<"_">> \o Str(frame) \o JpgExt

\* line 387: the image path written into the annotation
FramePath(media_name, frame_id) ==
  IMAGE_DIR \o SplitFirst(media_name, ".") \o <<"_">> \o Str(frame_id) \o JpgExt

\* line 442: the annotation file of an image
XmlPath(img_path) == LABEL_DIR \o ReplaceSub(Basename(img_path), JpgExt, XmlExt)

Min(a, b) == IF a <= b THEN a ELSE b

\* the pixel box of a localization, cut at the border of the image
BBoxClamped(localization, media_width, media_height) ==
  LET xmin == Trunc(localization.x * media_width, Denom)
      ymin == Trunc(localization.y * media_height, Denom)
  IN [xmin |-> xmin,
      ymin |-> ymin,
      xmax |-> Min(Trunc(localization.width * media_width, Denom) + xmin, media_width),
      ymax |-> Min(Trunc(localization.height * media_height, Denom) + ymin, media_height)]

\* lines 391-401: the pixel box of a localization
BBox(localization, media_width, media_height) ==
  LET xmin == Trunc(localization.x * media_width, Denom)
      ymin == Trunc(localization.y * media_height, Denom)
  IN [xmin |-> xmin,
      ymin |-> ymin,
      xmax |-> Trunc(localization.width * media_width, Denom) + xmin,
      ymax |-> Trunc(localization.height * media_height, Denom) + ymin]

\* lines 273-280: the localizations of the tracks, in the order the loops visit them
RECURSIVE TrackLocalizations(_)
TrackLocalizations(trs) ==
  IF trs = <<>> THEN <<>>
  ELSE Head(trs).localizations \o TrackLocalizations(Tail(trs))

\* line 276: the test that keeps a track localization
TrackKeep(localization) == ScientifcName \in DOMAIN localization.attributes

\* line 284: the test that keeps a standalone localization
LocalizationKeep(localization) == ScientificName \in DOMAIN localization.attributes

\* line 277: attributes['ScientificName'] raises KeyError on a kept track
\* localization that lacks the key
TrackKeyError(trs) ==
  \E i \in 1..Len(TrackLocalizations(trs)) :
     LET l == TrackLocalizations(trs)[i]
     IN TrackKeep(l) /\ ScientificName \notin DOMAIN l.attributes

\* lines 270-288: media_localizations
MediaLocalizations(trs, locs) ==
  SelectSeq(TrackLocalizations(trs), TrackKeep) \o SelectSeq(locs, LocalizationKeep)

\* lines 266-288: loc_id_to_class
LocIdToClass(kept) ==
  [i \in {kept[k].id : k \in 1..Len(kept)} |->
     kept[CHOOSE k \in 1..Len(kept) :
            /\ kept[k].id = i
            /\ \A j \in (k + 1)..Len(kept) : kept[j].id # i].attributes[ScientificName]]

\* lines 411-414: the class of a localization, "Unknown" when the lookup fails
ClassCategory(loc_id_to_class, localization) ==
  IF localization.id \in DOMAIN loc_id_to_class
  THEN loc_id_to_class[localization.id]
  ELSE Unknown

\* lines 383-416: the record made of one localization
Reshape(localization, media) ==
  [id |-> localization.id,
   frame |-> localization.frame,
   bbox |-> BBox(localization, media.width, media.height),
   path |-> FramePath(media.name, localization.frame),
   class_category |->
     ClassCategory(media.loc_id_to_class, localization)]

\* lines 424-431: the records of one frame, in the order of locs
FrameLocalizations(locs, frame) == SelectSeq(locs, LAMBDA e : e.frame = frame)

\* lines 445-456: what the writer holds when it is saved
Annotation(locs, media) ==
  [path |-> locs[1].path, width |-> media.width, height |-> media.height,
   objects |-> [i \in 1..Len(locs) |->
                  [name |-> locs[i].class_category,
                   xmin |-> locs[i].bbox.xmin, ymin |-> locs[i].bbox.ymin,
                   xmax |-> locs[i].bbox.xmax, ymax |-> locs[i].bbox.ymax]]]

\* lines 435-458: the files after the loop has saved one annotation per frame
RECURSIVE SaveAll(_, _, _, _)
SaveAll(files, frames, locs, media) ==
  IF frames = <<>> THEN files
  ELSE LET fl == FrameLocalizations(locs, Head(frames))
       IN SaveAll(Put(files, XmlPath(fl[1].path), Annotation(fl, media)),
                  Tail(frames), locs, media)

\* ------------------------------------------------------------------- Init
\* The kernel before the first cell that talks to the server has run, with
\* ./Data/JPEGImages and ./Data/Annotations freshly made and empty.
Fresh ==
  /\ pc = "media_list"
  /\ error = "none"
  /\ medias = <<>>
  /\ report = <<>>
  /\ ci = 0
  /\ tracks = <<>>
  /\ localizations = <<>>
  /\ media_w_localizations = <<>>
  /\ index = 0
  /\ frames_w_localizations = {}
  /\ tasks = EmptyFn
  /\ img_paths = EmptyFn
  /\ fetches = EmptyFn
  /\ saved = EmptyFn

FirstRun ==
  /\ Fresh
  /\ images = EmptyFn
  /\ xmls = EmptyFn
  /\ run = 1
  /\ start_images = EmptyFn
  /\ prev = <<>>

\* the media that shapes does not name have no localizations
Only(shapes) == [n \in MediaNames |-> IF n \in DOMAIN shapes THEN shapes[n] ELSE <<>>]

\* Any project over MediaNames, any non-empty list of media of interest; each
\* media of interest that the project holds has up to MaxLocs localizations,
\* all made with the localization tool and all carrying their class.  (The
\* localizations of the other media are never asked for.)
Init ==
  /\ \E P \in SUBSET MediaNames, D \in (SUBSET MediaNames) \ {{}} :
       \E shapes \in [P \cap D -> {sh \in SeqsUpTo(PlainShapes, MaxLocs) : ByFrame(sh)}] :
          /\ server = ServerOf(P, Size0, Only(shapes))
          /\ MEDIA_LIST = SelectSeq(NameOrder, LAMBDA n : n \in D)
  /\ DOWNLOAD \in BOOLEAN
  /\ FirstRun

\* The same over the two media whose files share a name.
InitRerun ==
  /\ \E P \in SUBSET {NameAM, NameAN}, D \in (SUBSET {NameAM, NameAN}) \ {{}} :
       \E shapes \in [P \cap D -> {sh \in SeqsUpTo(PlainShapes, MaxLocs) : ByFrame(sh)}] :
          /\ server = ServerOf(P, Size0, Only(shapes))
          /\ MEDIA_LIST = SelectSeq(NameOrder, LAMBDA n : n \in D)
  /\ DOWNLOAD \in BOOLEAN
  /\ FirstRun

\* The project holds every media of MediaNames and one of them is of interest;
\* it has up to MaxLocs localizations, each made with either tool and carrying
\* any of the attribute keys.
InitCollect ==
  /\ \E shapes \in [{NameAM} -> SeqsUpTo(FullShapes, MaxLocs)] :
          server = ServerOf(MediaNames, Size0, Only(shapes))
  /\ MEDIA_LIST = <<NameAM>>
  /\ DOWNLOAD \in BOOLEAN
  /\ FirstRun

\* One media of interest with one localization: any box over Nums / Denom on
\* a media of any of Sizes.
InitBox ==
  /\ \E size \in Sizes, shapes \in [{NameAM} -> [1..1 -> BoxShapes]] :
          server = ServerOf(MediaNames, size, Only(shapes))
  /\ MEDIA_LIST = <<NameAM>>
  /\ DOWNLOAD \in BOOLEAN
  /\ FirstRun

\* ---------------------------------------------------------------- actions
\* lines 199-202
GetMediaList ==
  /\ pc = "media_list"
  /\ medias' = server.medias
  /\ pc' = "report"
  /\ UNCHANGED <<server, MEDIA_LIST, DOWNLOAD, error, report, ci, tracks,
                 localizations, media_w_localizations, index,
                 frames_w_localizations, tasks, img_paths, images, xmls,
                 fetches, saved, run, start_images, prev>>

medias_names == {medias[i].name : i \in 1..Len(medias)}

\* lines 211-215, and the start of the loop of line 248
ReportMedia ==
  /\ pc = "report"
  /\ report' = [i \in 1..Len(MEDIA_LIST) |->
                  [media |-> MEDIA_LIST[i], found |-> MEDIA_LIST[i] \in medias_names]]
  /\ ci' = 1
  /\ pc' = "collect"
  /\ UNCHANGED <<server, MEDIA_LIST, DOWNLOAD, error, medias, tracks,
                 localizations, media_w_localizations, index,
                 frames_w_localizations, tasks, img_paths, images, xmls,
                 fetches, saved, run, start_images, prev>>

\* lines 291-296: the entry appended for a media
Entry(media, kept) ==
  [name |-> ReplaceChar(media.name, ":", "_"),
   id |-> media.id,
   width |-> media.width,
   height |-> media.height,
   localizations |-> kept,
   loc_id_to_class |-> LocIdToClass(kept)]

\* lines 248-296: one iteration of the collection loop
CollectMedia ==
  /\ pc = "collect"
  /\ ci <= Len(medias)
  /\ LET media == medias[ci]
     IN IF media.name \notin Range(MEDIA_LIST)
        THEN /\ ci' = ci + 1
             /\ UNCHANGED <<pc, error, tracks, localizations, media_w_localizations>>
        ELSE /\ localizations' = server.localizations[media.id]
             /\ tracks' = server.tracks[media.id]
             /\ IF TrackKeyError(tracks')
                THEN /\ pc' = "aborted"
                     /\ error' = "KeyError"
                     /\ UNCHANGED <<ci, media_w_localizations>>
                ELSE /\ media_w_localizations' =
                          Append(media_w_localizations,
                                 Entry(media, MediaLocalizations(tracks', localizations')))
                     /\ ci' = ci + 1
                     /\ UNCHANGED <<pc, error>>
  /\ UNCHANGED <<server, MEDIA_LIST, DOWNLOAD, medias, report, index,
                 frames_w_localizations, tasks, img_paths, images, xmls,
                 fetches, saved, run, start_images, prev>>

\* line 324, once the collection loop is over: media_w_localizations[0][4][0]
\* raises IndexError when there is no first entry or it has no localization,
\* and the run of the notebook stops at the failing cell; otherwise line 343
\* and the start of the loop of line 349.  (The plot of line 306 changes no
\* state that a later cell reads.)
InspectFirst ==
  /\ pc = "collect"
  /\ ci > Len(medias)
  /\ IF media_w_localizations = <<>> \/ media_w_localizations[1].localizations = <<>>
     THEN /\ pc' = "aborted"
          /\ error' = "IndexError"
          /\ UNCHANGED index
     ELSE /\ pc' = "download"
          /\ index' = 1
          /\ UNCHANGED error
  /\ UNCHANGED <<server, MEDIA_LIST, DOWNLOAD, medias, report, ci, tracks,
                 localizations, media_w_localizations,
                 frames_w_localizations, tasks, img_paths, images, xmls,
                 fetches, saved, run, start_images, prev>>

\* lines 352-372: the frames of the media and one submitted task per frame
StartPool ==
  /\ pc = "download"
  /\ LET media == media_w_localizations[index]
     IN /\ localizations' = media.localizations
        /\ frames_w_localizations' =
              {media.localizations[i].frame : i \in 1..Len(media.localizations)}
        /\ tasks' = [f \in frames_w_localizations' |-> "queued"]
  /\ img_paths' = EmptyFn
  /\ pc' = "pool"
  /\ UNCHANGED <<server, MEDIA_LIST, DOWNLOAD, error, medias, report, ci, tracks,
                 media_w_localizations, index, images, xmls,
                 fetches, saved, run, start_images, prev>>

Running == {f \in DOMAIN tasks : tasks[f] \in {"fetching", "moving"}}
TaskDst(frame) == Dst(frame, media_w_localizations[index].name, IMAGE_DIR)

\* download_image fetching whatever the download flag says
TaskStartNoFlag(frame) ==
  /\ pc = "pool"
  /\ frame \in DOMAIN tasks
  /\ tasks[frame] = "queued"
  /\ Cardinality(Running) < max_workers
  /\ IF TaskDst(frame) \notin DOMAIN images
     THEN /\ tasks' = [tasks EXCEPT ![frame] = "fetching"]
          /\ UNCHANGED img_paths
     ELSE /\ tasks' = [tasks EXCEPT ![frame] = "done"]
          /\ img_paths' = Put(img_paths, frame, TaskDst(frame))
  /\ UNCHANGED <<server, MEDIA_LIST, DOWNLOAD, pc, error, medias, report, ci,
                 tracks, localizations, media_w_localizations, index,
                 frames_w_localizations, images, xmls, fetches, saved, run,
                 start_images, prev>>

\* download_image fetching whether or not the file is there
TaskStartNoExists(frame) ==
  /\ pc = "pool"
  /\ frame \in DOMAIN tasks
  /\ tasks[frame] = "queued"
  /\ Cardinality(Running) < max_workers
  /\ IF DOWNLOAD
     THEN /\ tasks' = [tasks EXCEPT ![frame] = "fetching"]
          /\ UNCHANGED img_paths
     ELSE /\ tasks' = [tasks EXCEPT ![frame] = "done"]
          /\ img_paths' = Put(img_paths, frame, TaskDst(frame))
  /\ UNCHANGED <<server, MEDIA_LIST, DOWNLOAD, pc, error, medias, report, ci,
                 tracks, localizations, media_w_localizations, index,
                 frames_w_localizations, images, xmls, fetches, saved, run,
                 start_images, prev>>

\* lines 90-93 in a worker thread: the path and the test; a task that has
\* nothing to fetch returns at once (line 97)
TaskStart(frame) ==
  /\ pc = "pool"
  /\ frame \in DOMAIN tasks
  /\ tasks[frame] = "queued"
  /\ Cardinality(Running) < max_workers
  /\ IF TaskDst(frame) \notin DOMAIN images /\ DOWNLOAD
     THEN /\ tasks' = [tasks EXCEPT ![frame] = "fetching"]
          /\ UNCHANGED img_paths
     ELSE /\ tasks' = [tasks EXCEPT ![frame] = "done"]
          /\ img_paths' = Put(img_paths, frame, TaskDst(frame))
  /\ UNCHANGED <<server, MEDIA_LIST, DOWNLOAD, pc, error, medias, report, ci,
                 tracks, localizations, media_w_localizations, index,
                 frames_w_localizations, images, xmls, fetches, saved, run,
                 start_images, prev>>

\* line 94: api.get_frame returns the frame in a temporary file, or raises
TaskFetch(frame) ==
  /\ pc = "pool"
  /\ frame \in DOMAIN tasks
  /\ tasks[frame] = "fetching"
  /\ LET key == <<media_w_localizations[index].id, frame>>
     IN fetches' = Put(fetches, key,
                       IF key \in DOMAIN fetches THEN fetches[key] + 1 ELSE 1)
  /\ \E returned \in BOOLEAN :
       tasks' = [tasks EXCEPT ![frame] = IF returned THEN "moving" ELSE "failed"]
  /\ UNCHANGED <<server, MEDIA_LIST, DOWNLOAD, pc, error, medias, report, ci,
                 tracks, localizations, media_w_localizations, index,
                 frames_w_localizations, img_paths, images, xmls, saved, run,
                 start_images, prev>>

\* lines 95-97: shutil.move puts the frame at dst, the task returns dst
TaskMove(frame) ==
  /\ pc = "pool"
  /\ frame \in DOMAIN tasks
  /\ tasks[frame] = "moving"
  /\ images' = Put(images, TaskDst(frame), <<media_w_localizations[index].id, frame>>)
  /\ tasks' = [tasks EXCEPT ![frame] = "done"]
  /\ img_paths' = Put(img_paths, frame, TaskDst(frame))
  /\ UNCHANGED <<server, MEDIA_LIST, DOWNLOAD, pc, error, medias, report, ci,
                 tracks, localizations, media_w_localizations, index,
                 frames_w_localizations, xmls, fetches, saved, run,
                 start_images, prev>>

\* the results collected without looking at what the tasks raised
CollectResultsIgnore ==
  /\ pc = "pool"
  /\ \A f \in DOMAIN tasks : tasks[f] \in {"done", "failed"}
  /\ pc' = "annotate"
  /\ UNCHANGED error
  /\ UNCHANGED <<server, MEDIA_LIST, DOWNLOAD, medias, report, ci,
                 tracks, localizations, media_w_localizations, index,
                 frames_w_localizations, tasks, img_paths, images, xmls,
                 fetches, saved, run, start_images, prev>>

\* the pool left without waiting for its tasks
CollectResultsNoWait ==
  /\ pc = "pool"
  /\ IF \E f \in DOMAIN tasks : tasks[f] = "failed"
     THEN /\ pc' = "aborted"
          /\ error' = "FetchError"
     ELSE /\ pc' = "annotate"
          /\ UNCHANGED error
  /\ UNCHANGED <<server, MEDIA_LIST, DOWNLOAD, medias, report, ci,
                 tracks, localizations, media_w_localizations, index,
                 frames_w_localizations, tasks, img_paths, images, xmls,
                 fetches, saved, run, start_images, prev>>

\* lines 370-375: the with block ends when every task has ended; result()
\* re-raises what a task raised
CollectResults ==
  /\ pc = "pool"
  /\ \A f \in DOMAIN tasks : tasks[f] \in {"done", "failed"}
  /\ IF \E f \in DOMAIN tasks : tasks[f] = "failed"
     THEN /\ pc' = "aborted"
          /\ error' = "FetchError"
     ELSE /\ pc' = "annotate"
          /\ UNCHANGED error
  /\ UNCHANGED <<server, MEDIA_LIST, DOWNLOAD, medias, report, ci,
                 tracks, localizations, media_w_localizations, index,
                 frames_w_localizations, tasks, img_paths, images, xmls,
                 fetches, saved, run, start_images, prev>>

\* lines 377-431: locs
Locs(media) == [i \in 1..Len(media.localizations) |-> Reshape(media.localizations[i], media)]

\* lines 377-458: the records, the records by frame, one saved file per frame;
\* then the next media, or the end of the notebook
WriteAnnotations ==
  /\ pc = "annotate"
  /\ LET media == media_w_localizations[index]
         frames == SortedSeq(frames_w_localizations)
     IN /\ xmls' = SaveAll(xmls, frames, Locs(media), media)
        /\ saved' = SaveAll(saved, frames, Locs(media), media)
  /\ index' = index + 1
  /\ pc' = IF index' > Len(media_w_localizations) THEN "done" ELSE "download"
  /\ UNCHANGED <<server, MEDIA_LIST, DOWNLOAD, error, medias, report, ci,
                 tracks, localizations, media_w_localizations,
                 frames_w_localizations, tasks, img_paths, images,
                 fetches, run, start_images, prev>>

\* The notebook is executed again from its first cell, with the download flag
\* of line 150 set anew, on the files the first execution left (keep) or on
\* the directories emptied again.
Rerun ==
  /\ pc \in {"done", "aborted"}
  /\ run = 1
  /\ \E keep \in BOOLEAN :
       /\ prev' = <<[DOWNLOAD |-> DOWNLOAD, error |-> error, saved |-> saved,
                     fetches |-> fetches, images |-> images, keep |-> keep]>>
       /\ images' = IF keep THEN images ELSE EmptyFn
       /\ xmls' = IF keep THEN xmls ELSE EmptyFn
  /\ start_images' = images'
  /\ DOWNLOAD' \in BOOLEAN
  /\ run' = 2
  /\ pc' = "media_list"
  /\ error' = "none"
  /\ medias' = <<>>
  /\ report' = <<>>
  /\ ci' = 0
  /\ tracks' = <<>>
  /\ localizations' = <<>>
  /\ media_w_localizations' = <<>>
  /\ index' = 0
  /\ frames_w_localizations' = {}
  /\ tasks' = EmptyFn
  /\ img_paths' = EmptyFn
  /\ fetches' = EmptyFn
  /\ saved' = EmptyFn
  /\ UNCHANGED <<server, MEDIA_LIST>>

Next ==
  \/ GetMediaList
  \/ ReportMedia
  \/ CollectMedia
  \/ InspectFirst
  \/ StartPool
  \/ \E frame \in Frames : TaskStart(frame)
  \/ \E frame \in Frames : TaskFetch(frame)
  \/ \E frame \in Frames : TaskMove(frame)
  \/ CollectResults
  \/ WriteAnnotations

NextRerun == Next \/ Rerun

Spec == Init /\ [][Next]_vars
SpecCollect == InitCollect /\ [][Next]_vars
SpecBox == InitBox /\ [][Next]_vars
SpecRerun == InitRerun /\ [][NextRerun]_vars

\* ------------------------------------------------------------- properties
Ended == pc \in {"done", "aborted"}
Entries == 1..Len(media_w_localizations)
FramesOf(entry) == {entry.localizations[i].frame : i \in 1..Len(entry.localizations)}
KeptOn(entry, frame) ==
  Cardinality({i \in 1..Len(entry.localizations) : entry.localizations[i].frame = frame})
XmlOf(entry, frame) == XmlPath(FramePath(entry.name, frame))
ImageOf(entry, frame) == Dst(frame, entry.name, IMAGE_DIR)
ServerNames == {server.medias[i].name : i \in 1..Len(server.medias)}
NotFound == {n \in Range(MEDIA_LIST) : n \notin ServerNames}
TaskEnded(f) == tasks[f] \in {"done", "failed"}
SomeFailed == \E f \in DOMAIN tasks : tasks[f] = "failed"

\* C1: after a complete run, every frame that a kept localization of a selected
\* media refers to has its XML file, and the file holds as many objects as the
\* media has kept localizations on that frame.
C1_OneXmlPerFrame ==
  pc = "done" =>
    \A m \in Entries :
      \A f \in FramesOf(media_w_localizations[m]) :
        /\ XmlOf(media_w_localizations[m], f) \in DOMAIN xmls
        /\ Len(xmls[XmlOf(media_w_localizations[m], f)].objects)
             = KeptOn(media_w_localizations[m], f)

\* the localizations the server holds for a media, from tracks and standalone
ServerLocalizations(mid) ==
  Range(TrackLocalizations(server.tracks[mid])) \cup Range(server.localizations[mid])

\* C2: after a complete run, every localization of a selected media that lacks
\* "ScientificName" is an object labelled "Unknown" in the XML file of its frame.
C2_MissingClassIsUnknown ==
  pc = "done" =>
    \A m \in Entries :
      \A l \in ServerLocalizations(media_w_localizations[m].id) :
        ScientificName \notin DOMAIN l.attributes =>
          /\ XmlOf(media_w_localizations[m], l.frame) \in DOMAIN xmls
          /\ \E i \in DOMAIN xmls[XmlOf(media_w_localizations[m], l.frame)].objects :
               xmls[XmlOf(media_w_localizations[m], l.frame)].objects[i].name = Unknown

C4_NotFoundRunContinues ==
  \A n \in NotFound :
    /\ pc \notin {"media_list", "report"} =>
         \E i \in DOMAIN report : report[i] = [media |-> n, found |-> FALSE]
    /\ \A m \in Entries : medias[CHOOSE i \in 1..Len(medias) :
                              medias[i].id = media_w_localizations[m].id].name # n
    /\ ~(pc = "aborted" /\ error = "IndexError" /\ media_w_localizations = <<>>)

\* the step of a task that finds its destination present
C5_SkipStep ==
  \A f \in DOMAIN tasks :
    (pc = "pool" /\ DOWNLOAD /\ tasks[f] = "queued"
       /\ TaskDst(f) \in DOMAIN images /\ tasks'[f] # "queued")
    => /\ tasks'[f] = "done"
       /\ fetches' = fetches
       /\ images' = images
       /\ img_paths'[f] = TaskDst(f)

\* no frame is fetched twice, none whose file was there at the start
C5_FetchedOnce ==
  \A key \in DOMAIN fetches :
    /\ fetches[key] <= 1
    /\ \A m \in Entries :
         media_w_localizations[m].id = key[1] =>
           ImageOf(media_w_localizations[m], key[2]) \notin DOMAIN start_images

\* C5: with the flag true, a task that finds its destination present fetches
\* nothing, moves nothing, leaves the image files as they are and returns the
\* destination; so no frame is fetched twice, and an execution on the files of
\* an earlier one fetches no frame whose file is already there.
C5_IdempotentSkip == [](C5_FetchedOnce) /\ [][C5_SkipStep]_vars

C5_Witness ==
  /\ run = 2 /\ DOWNLOAD /\ prev[1].DOWNLOAD /\ prev[1].keep /\ pc = "pool"
  /\ \E f \in DOMAIN tasks :
       /\ tasks[f] = "done"
       /\ <<media_w_localizations[index].id, f>> \in DOMAIN prev[1].fetches
       /\ TaskDst(f) \in DOMAIN start_images
       /\ fetches = EmptyFn

\* round(num / den): Python 3 rounds halves to the even neighbour
Round(num, den) ==
  LET fl == num \div den
      r2 == 2 * (num - fl * den)
  IN IF r2 < den THEN fl
     ELSE IF r2 > den THEN fl + 1
     ELSE IF fl % 2 = 0 THEN fl ELSE fl + 1

\* the object of the one annotation written, and the localization it is made of
C6_Object == xmls[CHOOSE p \in DOMAIN xmls : TRUE].objects[1]
C6_Loc == server.localizations[MediaIdOf(NameAM)][1]
Abs(n) == IF n < 0 THEN -n ELSE n
CutOf(pixels, num) == Denom * pixels <= num /\ num < Denom * (pixels + 1)

\* C6: the box written for a localization has xmin and ymin equal to x * W and
\* y * H cut to an integer, and xmax - xmin and ymax - ymin equal to width * W
\* and height * H cut to an integer, hence within one pixel of their rounding,
\* whether or not the box ends inside the image.
C6_PixelBox ==
  xmls # EmptyFn =>
    LET o == C6_Object
        l == C6_Loc
        W == server.medias[1].width
        H == server.medias[1].height
    IN /\ CutOf(o.xmin, l.x * W)
       /\ CutOf(o.ymin, l.y * H)
       /\ CutOf(o.xmax - o.xmin, l.width * W)
       /\ CutOf(o.ymax - o.ymin, l.height * H)
       /\ Abs((o.xmax - o.xmin) - Round(l.width * W, Denom)) <= 1
       /\ Abs((o.ymax - o.ymin) - Round(l.height * H, Denom)) <= 1

C6_Witness ==
  /\ xmls # EmptyFn
  /\ C6_Object.xmax > server.medias[1].width
  /\ C6_Object.ymax > server.medias[1].height
  /\ (C6_Loc.x * server.medias[1].width) % Denom # 0
  /\ C6_Object.xmax - C6_Object.xmin # Round(C6_Loc.width * server.medias[1].width, Denom)

\* a failed fetch was made once, and only the pool or the end of the run follows
C7_AfterFailure ==
  /\ \A f \in DOMAIN tasks :
       tasks[f] = "failed" =>
         /\ fetches[<<media_w_localizations[index].id, f>>] = 1
         /\ pc \in {"pool", "aborted"}
  /\ pc = "aborted" /\ SomeFailed => error = "FetchError"
  /\ pc = "annotate" => ~SomeFailed

\* what a step may do once a fetch has failed, and once the run has ended
C7_FailureStep ==
  /\ SomeFailed =>
       /\ saved' = saved /\ xmls' = xmls
       /\ pc' \in {"pool", "aborted"}
       /\ \A f \in DOMAIN tasks :
            tasks[f] = "failed" => f \in DOMAIN tasks' /\ tasks'[f] = "failed"
       /\ (\A f \in DOMAIN tasks : TaskEnded(f)) => pc' = "aborted"
  /\ pc # "aborted"

\* C7: a get_frame call that raised is not made again; from then on no
\* annotation is saved, for this media or a later one; when the tasks of the
\* pool have ended the run ends with that error, and it stays ended.
C7_FetchFailureFatal == [](C7_AfterFailure) /\ [][C7_FailureStep]_vars

C7_Witness ==
  /\ pc = "aborted" /\ error = "FetchError" /\ index = 2
  /\ saved # EmptyFn
  /\ \E f, g \in DOMAIN tasks : tasks[f] = "failed" /\ tasks[g] = "done"

\* C8: the list kept for a selected media holds exactly the localizations of
\* its tracks and its standalone localizations that carry "ScientificName",
\* each with its id mapped to its class.
C8_KeepsEveryClassified ==
  \A m \in Entries :
    LET entry == media_w_localizations[m]
    IN /\ Range(entry.localizations) =
            {l \in ServerLocalizations(entry.id) : ScientificName \in DOMAIN l.attributes}
       /\ \A l \in Range(entry.localizations) :
            /\ l.id \in DOMAIN entry.loc_id_to_class
            /\ entry.loc_id_to_class[l.id] = l.attributes[ScientificName]

\* the tasks are those of the media the loop is at, and end with its pool
C9_OnePoolAtATime ==
  /\ pc = "pool" => DOMAIN tasks = FramesOf(media_w_localizations[index])
  /\ pc # "pool" => \A f \in DOMAIN tasks : TaskEnded(f)

\* saving an annotation, moving to the next media and starting a pool
C9_PoolStep ==
  (saved' # saved \/ xmls' # xmls \/ index' # index \/ (pc # "pool" /\ pc' = "pool"))
    => \A f \in DOMAIN tasks : tasks[f] = "done"

\* C9: the tasks in the pool are those of the media the download loop is at;
\* outside the pool no task is under way; an annotation is saved, and the pool
\* of the next media is started, only when every task of the media has ended.
C9_SynchronousPerMedia == [](C9_OnePoolAtATime) /\ [][C9_PoolStep]_vars

C9_Witness ==
  /\ pc = "pool" /\ index = 2
  /\ \E f \in DOMAIN tasks : tasks[f] = "fetching"
  /\ \A f \in FramesOf(media_w_localizations[1]) :
       XmlOf(media_w_localizations[1], f) \in DOMAIN saved

\* the image files a first execution holds once the pool of the media at index
\* has ended: those of the tasks that did not fail, and those of the media before
ExpectedImages ==
  IF DOWNLOAD
  THEN UNION {{ImageOf(media_w_localizations[m], f) :
                  f \in FramesOf(media_w_localizations[m])} : m \in 1..(index - 1)}
       \cup {TaskDst(f) : f \in {g \in DOMAIN tasks : tasks[g] = "done"}}
  ELSE {}

\* C10: the tasks of one pool have pairwise different destinations, and when
\* the pool has ended the image files are those the ended tasks determine,
\* whatever the order in which the threads ran.
C10_DistinctDestinations ==
  pc = "pool" =>
    /\ \A f, g \in DOMAIN tasks : f # g => TaskDst(f) # TaskDst(g)
    /\ (\A f \in DOMAIN tasks : TaskEnded(f)) => DOMAIN images = ExpectedImages

C10_Witness ==
  /\ pc = "pool"
  /\ \E f, g \in DOMAIN tasks : f # g /\ tasks[f] = "moving" /\ tasks[g] = "fetching"
====
